---- MODULE Spec2Model ----
(***************************************************************************)
(* Model of the paralympics REST API (paralympics/routes.py): ten Flask    *)
(* route handlers over two tables, Region (primary key NOC) and Event      *)
(* (primary key id), with Marshmallow schemas for validation and           *)
(* serialisation.  Each action is one whole request: lookup, load, stage,   *)
(* commit, response.  The state keeps the committed rows of both tables    *)
(* and the last request together with its response.                        *)
(***************************************************************************)
EXTENDS Integers, FiniteSets, Sequences, TLC

VARIABLES regions, events, lastReq

vars == <<regions, events, lastReq>>

-----------------------------------------------------------------------------
(* Bounds of the model *)

\* number of distinct NOC codes used as path keys and payload values
NumNOC == 2
\* largest Event id the store hands out or a request names
MaxId == 2

-----------------------------------------------------------------------------
(* Values *)

NOCNames == <<"AAA", "NEW", "ZZZ", "QQQ">>

NOCs == {NOCNames[i] : i \in 1..NumNOC}

EventIds == 1..MaxId

RegionNames == {"A new region"}

NoteTexts == {"updated"}

EventTypes == {"summer"}

\* Python None (a NULL column) and JSON null are different values; the
\* schema converts between them.
None == "<None>"

JsonNull == "<null>"

\* marker for a field that a request body does not contain
Omitted == "<omitted>"

NoId == 0

-----------------------------------------------------------------------------
(* Marshmallow schemas *)

FromJson(v) == IF v = JsonNull THEN None ELSE v

ToJson(v) == IF v = None THEN JsonNull ELSE v

\* RegionSchema().dump(region)
region_dump(r) ==
    [NOC |-> ToJson(r.NOC), notes |-> ToJson(r.notes), region |-> ToJson(r.region)]

\* EventSchema().dump(event)
event_dump(e) ==
    [id |-> e.id, type |-> ToJson(e.type)]

\* schema.dump(None): no attribute can be read, so no field is emitted
EmptyDump == <<>>

RegionRequired == {"NOC", "region"}

EventRequired == {"type"}

MissingMsg == <<"Missing data for required field.">>

NullMsg == <<"Field may not be null.">>

\* ValidationError.messages of schema.load(json, partial=partial): one entry
\* per offending field.  Empty when the body validates.
SchemaErrors(required, json, partial) ==
    LET bad == {f \in required :
                   \/ (~partial /\ f \notin DOMAIN json)
                   \/ (f \in DOMAIN json /\ json[f] = JsonNull)}
    IN  [f \in bad |-> IF f \in DOMAIN json THEN NullMsg ELSE MissingMsg]

\* the deserialised attribute values of a validated body
Deserialize(json) ==
    [f \in DOMAIN json |-> IF f = "id" THEN json[f] ELSE FromJson(json[f])]

\* setattr(instance, key, value) for every key of the loaded data
SetAttrs(instance, data) ==
    [f \in DOMAIN instance |-> IF f \in DOMAIN data THEN data[f] ELSE instance[f]]

\* Region(**data): attributes not given are None
NewRegion(data) == SetAttrs([NOC |-> None, region |-> None, notes |-> None], data)

\* Event(**data): attributes not given are None (id is then store-generated)
NewEvent(data) == SetAttrs([id |-> NoId, type |-> None], data)

\* schema.get_instance(): the stored row with the primary key of the body,
\* when the body names the primary key
RegionGetInstance(rs, data) ==
    IF "NOC" \in DOMAIN data THEN {r \in rs : r.NOC = data.NOC} ELSE {}

EventGetInstance(es, data) ==
    IF "id" \in DOMAIN data THEN {e \in es : e.id = data.id} ELSE {}

-----------------------------------------------------------------------------
(* Storage *)

\* db.select(Region).filter_by(NOC=code): the matching rows (at most one)
RegionByNOC(rs, code) == {r \in rs : r.NOC = code}

\* db.select(Event).filter_by(id=event_id)
EventById(es, event_id) == {e \in es : e.id = event_id}

Max(S) == CHOOSE x \in S : \A y \in S : y <= x

\* the id the store gives a new event row
NextEventId(es) == IF es = {} THEN 1 ELSE Max({e.id : e \in es}) + 1

\* the rows are consistent with the table constraints (primary key present
\* and unique, region NOT NULL)
RegionsCommittable(rs) ==
    /\ \A r \in rs : r.NOC # None /\ r.region # None
    /\ \A r1, r2 \in rs : r1.NOC = r2.NOC => r1 = r2

-----------------------------------------------------------------------------
(* Responses *)

Response(status, body, commits) ==
    [status |-> status, body |-> body, commits |-> commits]

\* @app.errorhandler(404)
resource_not_found(description) ==
    Response(404, [error |-> "404 Not Found: " \o description], 0)

\* handle_validation_error with the field messages replaced by one generic
\* error string
handle_validation_error_generic(messages) ==
    Response(400, [error |-> "Bad request"], 0)

\* @app.errorhandler(ValidationError)
handle_validation_error(messages) == Response(400, messages, 0)

\* an exception no handler is registered for
ServerError(exception) == Response(500, [exception |-> exception], 0)

-----------------------------------------------------------------------------
(* Route handlers as functions of the committed rows and the request.      *)
(* Each yields the response and the rows committed when it returns.        *)

Result(resp, rows, key) == [resp |-> resp, rows |-> rows, key |-> key]

\* GET /regions
get_regions_result(rs) ==
    Result(Response(200, {region_dump(r) : r \in rs}, 0), rs, "*")

\* GET /regions/<code>
get_region_result(rs, code) ==
    LET found == RegionByNOC(rs, code)
    IN  IF found = {}
        THEN Result(resource_not_found("Region not found."), rs, code)
        ELSE Result(Response(200, region_dump(CHOOSE r \in found : TRUE), 0), rs, code)

\* GET /events
get_events_result(es) ==
    Result(Response(200, {event_dump(e) : e \in es}, 0), es, NoId)

\* GET /events/<event_id>: scalar_one() outside any try block
get_event_result(es, event_id) ==
    LET found == EventById(es, event_id)
    IN  IF found = {}
        THEN Result(ServerError("NoResultFound"), es, event_id)
        ELSE Result(Response(200, event_dump(CHOOSE e \in found : TRUE), 0), es, event_id)

\* POST /events
add_event_result(es, ev_json) ==
    LET errs == SchemaErrors(EventRequired, ev_json, FALSE)
        data == Deserialize(ev_json)
        inst == EventGetInstance(es, data)
        old  == CHOOSE e \in inst : TRUE
        made == NewEvent(data)
        event == IF inst # {} THEN SetAttrs(old, data)
                 ELSE IF made.id = NoId THEN [made EXCEPT !.id = NextEventId(es)]
                 ELSE made
    IN  IF DOMAIN errs # {}
        THEN Result(handle_validation_error(errs), es, NoId)
        ELSE Result(Response(201, [message |-> <<"Event added with id= ", event.id>>], 1),
                    (es \ inst) \cup {event}, event.id)

\* add_region without db.session.add / commit: 201 is answered, nothing stored
add_region_not_stored(rs, json_data) ==
    LET errs == SchemaErrors(RegionRequired, json_data, FALSE)
        data == Deserialize(json_data)
    IN  IF DOMAIN errs # {}
        THEN Result(handle_validation_error(errs), rs, None)
        ELSE Result(Response(201, [message |-> <<"Region added with NOC= ", data.NOC>>], 1),
                    rs, data.NOC)

\* POST /regions
add_region_result(rs, json_data) ==
    LET errs == SchemaErrors(RegionRequired, json_data, FALSE)
        data == Deserialize(json_data)
        inst == RegionGetInstance(rs, data)
        old  == CHOOSE r \in inst : TRUE
        region == IF inst # {} THEN SetAttrs(old, data) ELSE NewRegion(data)
    IN  IF DOMAIN errs # {}
        THEN Result(handle_validation_error(errs), rs, None)
        ELSE Result(Response(201, [message |-> <<"Region added with NOC= ", region.NOC>>], 1),
                    (rs \ inst) \cup {region}, region.NOC)

\* delete_event without db.session.commit(): the row is answered as deleted
\* but no commit is made
delete_event_no_commit(es, event_id) ==
    LET found == EventById(es, event_id)
    IN  IF found = {}
        THEN Result(ServerError("NoResultFound"), es, event_id)
        ELSE Result(Response(200, [message |-> <<"Event ", event_id, " deleted">>], 0),
                    es, event_id)

\* DELETE /events/<int:event_id>: scalar_one() outside any try block
delete_event_result(es, event_id) ==
    LET found == EventById(es, event_id)
    IN  IF found = {}
        THEN Result(ServerError("NoResultFound"), es, event_id)
        ELSE Result(Response(200, [message |-> <<"Event ", event_id, " deleted">>], 1),
                    es \ found, event_id)

\* DELETE /regions/<noc_code>: scalar_one() outside any try block
delete_region_result(rs, noc_code) ==
    LET found == RegionByNOC(rs, noc_code)
    IN  IF found = {}
        THEN Result(ServerError("NoResultFound"), rs, noc_code)
        ELSE Result(Response(200, [message |-> <<"Region ", noc_code, " deleted">>], 1),
                    rs \ found, noc_code)

\* PATCH /events/<event_id>: filter_by(event_id=...) names no attribute of
\* Event, so building the query raises before the body is read
event_update_result(es, event_id, event_json) ==
    Result(ServerError("InvalidRequestError"), es, event_id)

\* region_update loading without instance=existing_region: the row is
\* rebuilt from the body alone, so omitted fields are reset
region_update_rebuild(rs, noc_code, region_json) ==
    LET existing == RegionByNOC(rs, noc_code)
        errs == SchemaErrors(RegionRequired, region_json, TRUE)
        data == Deserialize(region_json)
        region_updated == SetAttrs([NOC |-> noc_code, region |-> "A new region",
                                    notes |-> None], data)
        staged == (rs \ existing) \cup {region_updated}
        updated == RegionByNOC(staged, noc_code)
    IN  IF DOMAIN errs # {}
        THEN Result(handle_validation_error(errs), rs, noc_code)
        ELSE IF ~RegionsCommittable(staged)
        THEN Result(ServerError("IntegrityError"), rs, noc_code)
        ELSE Result(Response(200,
                             IF updated = {} THEN EmptyDump
                             ELSE region_dump(CHOOSE r \in updated : TRUE), 1),
                    staged, noc_code)

\* region_update re-reading the row with scalar_one(): after a committed
\* change of the NOC the re-read misses and the request fails
region_update_reread_one(rs, noc_code, region_json) ==
    LET existing == RegionByNOC(rs, noc_code)
        errs == SchemaErrors(RegionRequired, region_json, TRUE)
        data == Deserialize(region_json)
        inst == IF existing # {} THEN existing ELSE RegionGetInstance(rs, data)
        old  == CHOOSE r \in inst : TRUE
        region_updated == IF inst # {} THEN SetAttrs(old, data) ELSE NewRegion(data)
        staged == (rs \ inst) \cup {region_updated}
        updated == RegionByNOC(staged, noc_code)
    IN  IF DOMAIN errs # {}
        THEN Result(handle_validation_error(errs), rs, noc_code)
        ELSE IF ~RegionsCommittable(staged)
        THEN Result(ServerError("IntegrityError"), rs, noc_code)
        ELSE IF updated = {}
        THEN Result(ServerError("NoResultFound"), staged, noc_code)
        ELSE Result(Response(200, region_dump(CHOOSE r \in updated : TRUE), 1),
                    staged, noc_code)

\* PATCH /regions/<noc_code>
region_update_result(rs, noc_code, region_json) ==
    LET existing == RegionByNOC(rs, noc_code)
        errs == SchemaErrors(RegionRequired, region_json, TRUE)
        data == Deserialize(region_json)
        inst == IF existing # {} THEN existing ELSE RegionGetInstance(rs, data)
        old  == CHOOSE r \in inst : TRUE
        region_updated == IF inst # {} THEN SetAttrs(old, data) ELSE NewRegion(data)
        staged == (rs \ inst) \cup {region_updated}
        updated == RegionByNOC(staged, noc_code)
    IN  IF DOMAIN errs # {}
        THEN Result(handle_validation_error(errs), rs, noc_code)
        ELSE IF ~RegionsCommittable(staged)
        THEN Result(ServerError("IntegrityError"), rs, noc_code)
        ELSE Result(Response(200,
                             IF updated = {} THEN EmptyDump
                             ELSE region_dump(CHOOSE r \in updated : TRUE), 1),
                    staged, noc_code)

-----------------------------------------------------------------------------
(* Request bodies *)

Opt(S) == S \cup {Omitted}

RegionBody(noc, region, notes) ==
    [f \in {g \in {"NOC", "region", "notes"} :
               \/ (g = "NOC" /\ noc # Omitted)
               \/ (g = "region" /\ region # Omitted)
               \/ (g = "notes" /\ notes # Omitted)} |->
        CASE f = "NOC" -> noc [] f = "region" -> region [] OTHER -> notes]

RegionBodies ==
    {RegionBody(noc, region, notes) :
        noc \in Opt(NOCs), region \in Opt(RegionNames \cup {JsonNull}),
        notes \in Opt(NoteTexts \cup {JsonNull})}

EventBody(id, type) ==
    [f \in {g \in {"id", "type"} :
               \/ (g = "id" /\ id # NoId)
               \/ (g = "type" /\ type # Omitted)} |->
        IF f = "id" THEN id ELSE type]

EventBodies ==
    {EventBody(id, type) :
        id \in EventIds \cup {NoId}, type \in Opt(EventTypes \cup {JsonNull})}

NoBody == <<>>

-----------------------------------------------------------------------------
(* State machine *)

Request(verb, res, json, result) ==
    [verb |-> verb, res |-> res, key |-> result.key, json |-> json,
     status |-> result.resp.status, body |-> result.resp.body,
     commits |-> result.resp.commits]

Init ==
    /\ regions = {}
    /\ events = {}
    /\ lastReq = [verb |-> "NONE", res |-> "none", key |-> None, json |-> NoBody,
                  status |-> 0, body |-> NoBody, commits |-> 0]

RegionStep(verb, json, result) ==
    /\ regions' = result.rows
    /\ lastReq' = Request(verb, "region", json, result)
    /\ UNCHANGED events

EventStep(verb, json, result) ==
    /\ events' = result.rows
    /\ lastReq' = Request(verb, "event", json, result)
    /\ UNCHANGED regions

get_regions == RegionStep("LIST", NoBody, get_regions_result(regions))

get_region == \E code \in NOCs : RegionStep("GET", NoBody, get_region_result(regions, code))

get_events == EventStep("LIST", NoBody, get_events_result(events))

get_event == \E id \in EventIds : EventStep("GET", NoBody, get_event_result(events, id))

add_event ==
    \E ev_json \in EventBodies :
        /\ add_event_result(events, ev_json).key <= MaxId
        /\ EventStep("POST", ev_json, add_event_result(events, ev_json))

add_region ==
    \E json_data \in RegionBodies :
        RegionStep("POST", json_data, add_region_result(regions, json_data))

delete_event ==
    \E id \in EventIds : EventStep("DELETE", NoBody, delete_event_result(events, id))

delete_region ==
    \E code \in NOCs : RegionStep("DELETE", NoBody, delete_region_result(regions, code))

event_update ==
    \E id \in EventIds, event_json \in EventBodies :
        EventStep("PATCH", event_json, event_update_result(events, id, event_json))

region_update ==
    \E code \in NOCs, region_json \in RegionBodies :
        RegionStep("PATCH", region_json, region_update_result(regions, code, region_json))

Next ==
    \/ get_regions
    \/ get_region
    \/ get_events
    \/ get_event
    \/ add_event
    \/ add_region
    \/ delete_event
    \/ delete_region
    \/ event_update
    \/ region_update

Spec == Init /\ [][Next]_vars

-----------------------------------------------------------------------------
(* Vocabulary of the properties.  In a step, lastReq' is the request the   *)
(* step handled and the unprimed tables are the rows it started from.      *)

\* the path key of request req names a stored row of its table
KeyPresent(rs, es, req) ==
    IF req.res = "region" THEN RegionByNOC(rs, req.key) # {}
    ELSE EventById(es, req.key) # {}

\* what a GET of the key of request req answers on the given tables
GetByKey(rs, es, req) ==
    IF req.res = "region" THEN get_region_result(rs, req.key).resp
    ELSE get_event_result(es, req.key).resp

RequiredOf(req) == IF req.res = "region" THEN RegionRequired ELSE EventRequired

FieldsOf(req) == IF req.res = "region" THEN {"NOC", "region", "notes"} ELSE {"id", "type"}

Succeeded(req) == req.status \in {200, 201}

StorageUnchanged == regions' = regions /\ events' = events

RegionKeys(rs) == {r.NOC : r \in rs}

EventKeys(es) == {e.id : e \in es}

-----------------------------------------------------------------------------
(* C1 *)

\* C1: for both resources, GET by key, PATCH and DELETE of a key that is not
\* in storage answer 404 with a JSON body whose "error" is a non-empty string.
C1_MissingKeyIs404 ==
    [][(/\ lastReq'.verb \in {"GET", "PATCH", "DELETE"}
        /\ ~KeyPresent(regions, events, lastReq'))
       => (/\ lastReq'.status = 404
           /\ "error" \in DOMAIN lastReq'.body
           /\ lastReq'.body.error # "")]_vars

-----------------------------------------------------------------------------
(* C2 *)

-----------------------------------------------------------------------------
(* C3 *)

\* C3: a POST whose payload omits a mandatory field answers 400 with an
\* object that maps the name of every omitted mandatory field to a non-empty
\* list of error strings.
C3_MissingFieldIs400 ==
    (lastReq.verb = "POST" /\ RequiredOf(lastReq) \ DOMAIN lastReq.json # {})
    => /\ lastReq.status = 400
       /\ \A f \in RequiredOf(lastReq) \ DOMAIN lastReq.json :
             /\ f \in DOMAIN lastReq.body
             /\ Len(lastReq.body[f]) >= 1

C3_Witness ==
    /\ lastReq.verb = "POST" /\ lastReq.res = "region"
    /\ DOMAIN lastReq.json = {"NOC", "notes"}
    /\ lastReq.status = 400

-----------------------------------------------------------------------------
(* C4 *)

\* C4: once a DELETE of key k has answered 200, a further DELETE of k (no
\* POST in between) answers 404, never a second success or another status.
C4_SecondDeleteIs404 ==
    [][(/\ lastReq.verb = "DELETE" /\ lastReq.status = 200
        /\ lastReq'.verb = "DELETE" /\ lastReq'.res = lastReq.res
        /\ lastReq'.key = lastReq.key)
       => lastReq'.status = 404]_vars

-----------------------------------------------------------------------------
(* C5 *)

\* C5: a PATCH of an existing entity changes at most that entity, and leaves
\* every field of it that the body omits at the value it had.
C5_PatchFrame ==
    [][(lastReq'.verb = "PATCH" /\ KeyPresent(regions, events, lastReq'))
       => IF lastReq'.res = "region"
          THEN /\ events' = events
               /\ LET old == CHOOSE r \in RegionByNOC(regions, lastReq'.key) : TRUE
                  IN  \E new \in regions' \cup {old} :
                         /\ regions' = (regions \ {old}) \cup {new}
                         /\ \A f \in FieldsOf(lastReq') \ DOMAIN lastReq'.json :
                               new[f] = old[f]
          ELSE StorageUnchanged]_vars

C5_Witness ==
    /\ lastReq.verb = "PATCH" /\ lastReq.res = "region" /\ lastReq.status = 200
    /\ DOMAIN lastReq.json = {"notes"}
    /\ lastReq.json.notes = "updated"
    /\ \E r \in regions :
          r.NOC = lastReq.key /\ r.notes = "updated" /\ r.region = "A new region"

-----------------------------------------------------------------------------
(* C6 *)

\* C6: for both resources a PATCH of an existing key with a valid partial
\* body answers 200 with the JSON object of the updated entity, which is
\* what a following GET of the same key returns.
C6_PatchReturnsUpdated ==
    [][(/\ lastReq'.verb = "PATCH"
        /\ KeyPresent(regions, events, lastReq')
        /\ DOMAIN SchemaErrors(RequiredOf(lastReq'), lastReq'.json, TRUE) = {})
       => (/\ lastReq'.status = 200
           /\ GetByKey(regions', events', lastReq').status = 200
           /\ lastReq'.body = GetByKey(regions', events', lastReq').body)]_vars

-----------------------------------------------------------------------------
(* C7 *)

\* C7: a PATCH of an existing entity never alters its primary key: the set
\* of primary keys in storage is the same after the PATCH as before.
C7_PatchKeepsKeys ==
    [][(lastReq'.verb = "PATCH" /\ KeyPresent(regions, events, lastReq'))
       => (/\ RegionKeys(regions') = RegionKeys(regions)
           /\ EventKeys(events') = EventKeys(events))]_vars

-----------------------------------------------------------------------------
(* C8 *)

\* C8: a PATCH of a key that is not in storage commits nothing: the stored
\* entities are the same after the request as before.
C8_PatchMissingKeyNoChange ==
    [][(lastReq'.verb = "PATCH" /\ ~KeyPresent(regions, events, lastReq'))
       => StorageUnchanged]_vars

-----------------------------------------------------------------------------
(* C9 *)

-----------------------------------------------------------------------------
(* C10 *)

\* C10 as stated: every POST, PATCH and DELETE request performs exactly one
\* commit; every GET performs none and leaves the stored entities unchanged.
C10_AlwaysOneCommit ==
    [][/\ lastReq'.verb \in {"POST", "PATCH", "DELETE"} => lastReq'.commits = 1
       /\ lastReq'.verb \in {"GET", "LIST"}
             => (lastReq'.commits = 0 /\ StorageUnchanged)]_vars

\* C10 amended: a POST, PATCH or DELETE request performs exactly one commit
\* when it answers 200 or 201 and none when it fails; every GET performs no
\* commit and leaves the stored entities unchanged.
C10_OneCommitOnSuccess ==
    [][/\ lastReq'.verb \in {"POST", "PATCH", "DELETE"}
             => lastReq'.commits = (IF Succeeded(lastReq') THEN 1 ELSE 0)
       /\ lastReq'.verb \in {"GET", "LIST"}
             => (lastReq'.commits = 0 /\ StorageUnchanged)]_vars

C10_Witness ==
    /\ lastReq.verb = "DELETE" /\ lastReq.res = "event"
    /\ lastReq.status = 500 /\ lastReq.commits = 0
    /\ events # {}

====
